---- MODULE Spec2Model ----
(***************************************************************************)
(* Capsule wardrobe generator: the in-memory item store of                 *)
(* wardrobe_model.py, the Flask handlers of app.py that fill and read it,  *)
(* the outfit combinator / scorer / selector (_build_30_outfits) and the   *)
(* colour classifier of outfitgenerator.py.                                *)
(*                                                                         *)
(* Numbers.  Python computes the scores in floating point.  The model      *)
(* keeps them exact by scaling: a pair colour score is held doubled        *)
(* (3.0, 2.5, 1.0 -> 6, 5, 2), a cosine similarity is held doubled, a      *)
(* style score (a mean of 1 or 3 similarities) is held times 6 and a total *)
(* score is held times 60.  Embeddings are unit vectors at multiples of    *)
(* 60 degrees, so every similarity is one of 1, 0.5, -0.5, -1 and every    *)
(* scaled quantity is an integer; on these values the float computation    *)
(* orders the totals exactly as the scaled integers do.                    *)
(*                                                                         *)
(* An item id "item<N>" is held as the number N.                           *)
(***************************************************************************)
EXTENDS Integers, Sequences, FiniteSets, TLC

VARIABLES
    _ITEMS,     \* wardrobe_model._ITEMS: the list of stored items
    pc,         \* per request thread: where its handler stands
    category,   \* upload handler: the submitted form's category label
    image,      \* upload handler: the submitted image
    item_id,    \* handle_new_item: the local item_id (0 when unset)
    items_map,  \* generate_capsule: the local items_map
    tops,       \* _build_30_outfits: the local tops
    bottoms,    \* _build_30_outfits: the local bottoms
    jackets,    \* _build_30_outfits: the local jackets
    frame,      \* _build_30_outfits: the locals combos, scored, best and the value returned
    resp,       \* what the handler hands to the client / the template
    probe       \* categorize_color: the argument, the return statement taken, the value returned

vars == <<_ITEMS, pc, category, image, item_id, items_map, tops, bottoms, jackets, frame, resp, probe>>

----------------------------------------------------------------------------
(* Bounds of the model *)

\* most items the store may hold in the threaded specification
MaxItems == 3
\* the sequential inputs of _build_30_outfits: most tops, bottoms, jackets, other items
MaxTops == 3
MaxBottoms == 3
MaxJackets == 3
MaxOther == 1

\* Flask's development server (app.run) serves each request in its own thread
Threads == {"t1", "t2"}

----------------------------------------------------------------------------
(* Program constants *)

\* min(31, len(scored)), while len(best) < 31, best[:31]
CapsuleSlice == 31
\* [[it["id"]] for it in items][:30]
SingleSlice == 30
\* if wardrobe_model.get_item_count() < 2
MinItemCount == 2
\* w_color = 0.6, on doubled colour scores and totals times 60
w_color == 18
\* w_style = 0.4, on style scores times 6 and totals times 60
w_style == 4
\* OpenCV hue is [0, 179]
HueMax == 179
\* saturation and value are 8-bit channels
ChannelMax == 255

NoneVal == "None"

----------------------------------------------------------------------------
(* Helpers on sequences *)

Min(a, b) == IF a < b THEN a ELSE b

RECURSIVE Flatten(_)
Flatten(ss) == IF Len(ss) = 0 THEN <<>> ELSE Head(ss) \o Flatten(Tail(ss))

RECURSIVE Sum(_)
Sum(s) == IF Len(s) = 0 THEN 0 ELSE Head(s) + Sum(Tail(s))

\* for i in range(n): for j in range(i + 1, n): the index pairs in loop order
IndexPairs(n) == Flatten([i \in 1..n |-> [d \in 1..(n - i) |-> <<i, i + d>>]])

----------------------------------------------------------------------------
(* outfitgenerator.py: the colour classifier *)

\* which return statement of categorize_color the colour leaves through (1..6)
categorize_rule_loose(hsv) ==
    LET h == hsv[1]
        s == hsv[2]
        v == hsv[3]
    IN  IF s < 15 \/ v < 20 THEN 1
        ELSE IF ((0 <= h /\ h <= 15) \/ (160 <= h /\ h <= 179)) /\ s >= 40 THEN 2
        ELSE IF 15 < h /\ h <= 45 THEN 3
        ELSE IF 45 < h /\ h <= 120 THEN 4
        ELSE IF 120 < h /\ h <= 179 THEN 5
        ELSE 6

categorize_rule(hsv) ==
    LET h == hsv[1]
        s == hsv[2]
        v == hsv[3]
    IN  IF s < 15 \/ v < 20 THEN 1
        ELSE IF ((0 <= h /\ h <= 15) \/ (160 <= h /\ h <= 179)) /\ s > 40 THEN 2
        ELSE IF 15 < h /\ h <= 45 THEN 3
        ELSE IF 45 < h /\ h <= 120 THEN 4
        ELSE IF 120 < h /\ h <= 179 THEN 5
        ELSE 6

\* the value each return statement returns
RuleGroup == <<"neutral", "warm", "warm", "cool", "cool", "neutral">>

categorize_color(hsv) == RuleGroup[categorize_rule(hsv)]

----------------------------------------------------------------------------
(* The uploads the threaded specification submits *)

\* the images submitted; NoneVal is a form without a file
Images == {"coral.jpg", "denim.jpg", "grey.jpg"}

\* get_dominant_color_bgr followed by bgr_to_hsv, on the submitted images
DominantHSV(img) ==
    CASE img = "coral.jpg" -> <<5, 150, 220>>
      [] img = "denim.jpg" -> <<110, 120, 140>>
      [] OTHER -> <<50, 10, 100>>

\* get_image_embedding, on the submitted images: the direction of the unit vector
Embedding(img) ==
    CASE img = "coral.jpg" -> 0
      [] img = "denim.jpg" -> 1
      [] OTHER -> 3

\* category.lower().strip(), on the labels the forms carry
lower_strip(label) ==
    CASE label = "Top " -> "top"
      [] label = " BOTTOM" -> "bottom"
      [] label = "Jacket" -> "jacket"
      [] label = "Dress" -> "dress"
      [] OTHER -> label

\* the forms posted to /upload: (item_image, category)
Submissions ==
    { <<"coral.jpg", "Top ">>, <<"denim.jpg", " BOTTOM">>, <<"grey.jpg", "Jacket">>,
      <<NoneVal, "Top ">>, <<"grey.jpg", NoneVal>> }

\* the stages of handle_new_item that can raise before the append
Stages == {"open", "embedding", "dominant_color", "categorize"}

----------------------------------------------------------------------------
(* wardrobe_model.py: the store *)

\* item_id = f"item{len(_ITEMS) + 1}"
new_item_id(items) == Len(items) + 1

\* the dict appended by handle_new_item
new_item(id, img, label) ==
    [ id |-> id,
      image_path |-> img,
      category |-> lower_strip(label),
      color_group |-> categorize_color(DominantHSV(img)),
      embedding |-> Embedding(img) ]

\* get_item_count
get_item_count(items) == Len(items)

\* {item["id"]: item for item in _ITEMS}: a later item replaces an earlier one of the same id
build_items_map(items) ==
    LET ids == { items[i].id : i \in 1..Len(items) }
        last(k) == CHOOSE i \in 1..Len(items) :
                      /\ items[i].id = k
                      /\ \A j \in 1..Len(items) : items[j].id = k => j <= i
    IN  [ k \in ids |-> items[last(k)] ]

----------------------------------------------------------------------------
(* wardrobe_model.py: scoring *)

\* _pair_color_score, doubled
_pair_color_score(g1, g2) ==
    IF g1 = "neutral" \/ g2 = "neutral" THEN 6
    ELSE IF g1 = g2 THEN 5
    ELSE 2

\* _outfit_color_score, doubled
_outfit_color_score(groups) ==
    LET ps == IndexPairs(Len(groups))
    IN  Sum([k \in 1..Len(ps) |-> _pair_color_score(groups[ps[k][1]], groups[ps[k][2]])])

\* cosine of a multiple of 60 degrees, doubled
CosTable == <<2, 1, -1, -2, -1, 1>>

\* _cosine_sim, doubled
_cosine_sim(e1, e2) == CosTable[((e1 - e2) % 6) + 1]

\* _outfit_style_score, times 6: the mean of the pairwise similarities, 0.0 without pairs
_outfit_style_score(embeds) ==
    LET ps == IndexPairs(Len(embeds))
        sims == [k \in 1..Len(ps) |-> _cosine_sim(embeds[ps[k][1]], embeds[ps[k][2]])]
    IN  IF Len(sims) = 0 THEN 0 ELSE (3 * Sum(sims)) \div Len(sims)

\* total = w_color * c_score + w_style * s_score, times 60
total_score(combo) ==
    w_color * _outfit_color_score(combo.groups) + w_style * _outfit_style_score(combo.embeds)

----------------------------------------------------------------------------
(* wardrobe_model.py: _build_30_outfits *)

_make_combo(item_list) ==
    [ ids |-> [k \in 1..Len(item_list) |-> item_list[k].id],
      groups |-> [k \in 1..Len(item_list) |-> item_list[k].color_group],
      embeds |-> [k \in 1..Len(item_list) |-> item_list[k].embedding] ]

\* [it for it in items if it["category"] == c]
of_category(items, c) == SelectSeq(items, LAMBDA it : it.category = c)

\* a jacket filter that takes everything that is neither top nor bottom
jackets_of_any(items) == SelectSeq(items, LAMBDA it : it.category \notin {"top", "bottom"})

tops_of(items) == of_category(items, "top")
bottoms_of(items) == of_category(items, "bottom")
jackets_of(items) == of_category(items, "jacket")

\* for t in tops: for b in bottoms: the pair, then the pair with each jacket
structured_combos(ts, bs, js) ==
    Flatten([ti \in 1..Len(ts) |->
        Flatten([bi \in 1..Len(bs) |->
            <<_make_combo(<<ts[ti], bs[bi]>>)>>
            \o [ji \in 1..Len(js) |-> _make_combo(<<ts[ti], bs[bi], js[ji]>>)]])])

\* a fallback whose inner loop starts at i instead of i + 1
fallback_combos_self(items) ==
    LET n == Len(items)
    IN  Flatten([i \in 1..n |-> [d \in 1..(n - i + 1) |->
            _make_combo(<<items[i], items[i + d - 1]>>)]])

\* for i in range(n): for j in range(i + 1, n): every pair of items, whatever the category
fallback_combos(items) ==
    LET n == Len(items)
        ps == IndexPairs(n)
    IN  [k \in 1..Len(ps) |-> _make_combo(<<items[ps[k][1]], items[ps[k][2]]>>)]

\* a descending insertion that puts an entry before the entries of equal total
insert_desc_unstable(sorted, x) ==
    LET pos == Cardinality({ i \in 1..Len(sorted) : sorted[i].total > x.total })
    IN  [ i \in 1..(Len(sorted) + 1) |->
            IF i <= pos THEN sorted[i]
            ELSE IF i = pos + 1 THEN x
            ELSE sorted[i - 1] ]

\* insert x into a descending list, after every entry whose total is not smaller
insert_desc(sorted, x) ==
    LET pos == Cardinality({ i \in 1..Len(sorted) : sorted[i].total >= x.total })
    IN  [ i \in 1..(Len(sorted) + 1) |->
            IF i <= pos THEN sorted[i]
            ELSE IF i = pos + 1 THEN x
            ELSE sorted[i - 1] ]

RECURSIVE sort_from(_, _, _)
sort_from(acc, s, k) ==
    IF k > Len(s) THEN acc ELSE sort_from(insert_desc(acc, s[k]), s, k + 1)

\* scored.sort(key=lambda x: x[0], reverse=True): stable, descending
sort_desc(s) == sort_from(<<>>, s, 1)

\* a padding that repeats the back of the list instead of its front
RECURSIVE pad_from_back(_)
pad_from_back(best) ==
    IF Len(best) < CapsuleSlice /\ Len(best) > 0
    THEN LET k == Min(CapsuleSlice - Len(best), Len(best))
         IN  pad_from_back(best \o SubSeq(best, Len(best) - k + 1, Len(best)))
    ELSE best

\* while len(best) < 31 and best: best.extend(best[: (31 - len(best))])
RECURSIVE pad(_)
pad(best) ==
    IF Len(best) < CapsuleSlice /\ Len(best) > 0
    THEN pad(best \o SubSeq(best, 1, Min(CapsuleSlice - Len(best), Len(best))))
    ELSE best

\* the frame of a call that has not run
NoFrame == [combos |-> <<>>, scored |-> <<>>, best |-> <<>>, ret |-> <<>>]

\* _build_30_outfits from line 184 on: ts, bs, js are the lists read at lines 180-182
build_from(ts, bs, js, items) ==
    LET combos == IF Len(ts) > 0 /\ Len(bs) > 0
                  THEN structured_combos(ts, bs, js)
                  ELSE fallback_combos(items)
    IN  IF Len(combos) = 0
        THEN [ combos |-> <<>>, scored |-> <<>>, best |-> <<>>,
               ret |-> SubSeq([k \in 1..Len(items) |-> <<items[k].id>>],
                              1, Min(SingleSlice, Len(items))) ]
        ELSE LET scored == sort_desc([k \in 1..Len(combos) |->
                                [total |-> total_score(combos[k]), ids |-> combos[k].ids]])
                 top_k == Min(CapsuleSlice, Len(scored))
                 best == [k \in 1..top_k |-> scored[k].ids]
                 padded == pad(best)
             IN  [ combos |-> combos, scored |-> scored, best |-> best,
                   ret |-> SubSeq(padded, 1, Min(CapsuleSlice, Len(padded))) ]

\* _build_30_outfits called with nothing running beside it
_build_30_outfits(items) ==
    build_from(tops_of(items), bottoms_of(items), jackets_of(items), items)

\* generate_capsule, lines 111-116: number the outfits from day 1
number_days(outfits_item_ids) ==
    [d \in 1..Len(outfits_item_ids) |-> [day |-> d, items |-> outfits_item_ids[d]]]

----------------------------------------------------------------------------
(* app.py: what the handlers answer *)

NoResp == [kind |-> "none", days |-> <<>>, items |-> <<>>, message |-> NoneVal]

\* redirect(url_for("home"))
Redirect == [kind |-> "redirect", days |-> <<>>, items |-> <<>>, message |-> NoneVal]

\* the exception leaves the handler: Flask answers 500
ServerError(stage) == [kind |-> "error", days |-> <<>>, items |-> <<>>, message |-> stage]

\* render_template("capsule.html", days=[], items={}, message=msg)
Insufficient ==
    [kind |-> "capsule", days |-> <<>>, items |-> <<>>,
     message |-> "Please upload at least 10 wardrobe pieces"]

\* calendar_days: day_number = idx + 1 with the outfit of that index
calendar_days(outfits) ==
    [k \in 1..Len(outfits) |-> [day_number |-> k, outfit |-> outfits[k]]]

\* render_template("capsule.html", days=calendar_days, items=items_map, message=None)
CapsulePage(outfits, map) ==
    [kind |-> "capsule", days |-> calendar_days(outfits), items |-> map, message |-> NoneVal]

\* a gate that lets a single item through
below_minimum_one(count) == count < 1

\* if wardrobe_model.get_item_count() < 2
below_minimum(count) == count < MinItemCount

----------------------------------------------------------------------------
(* The threaded program *)

InFlight == Cardinality({ t \in Threads : pc[t] = "hn" })

Init ==
    /\ _ITEMS = <<>>
    /\ pc = [t \in Threads |-> "idle"]
    /\ category = [t \in Threads |-> NoneVal]
    /\ image = [t \in Threads |-> NoneVal]
    /\ item_id = [t \in Threads |-> 0]
    /\ items_map = [t \in Threads |-> <<>>]
    /\ tops = [t \in Threads |-> <<>>]
    /\ bottoms = [t \in Threads |-> <<>>]
    /\ jackets = [t \in Threads |-> <<>>]
    /\ frame = [t \in Threads |-> NoFrame]
    /\ resp = [t \in Threads |-> NoResp]
    /\ probe = [hsv |-> <<0, 0, 0>>, rule |-> 0, group |-> NoneVal]

\* upload_item, lines 35-46, and handle_new_item, line 65
UploadItem(t) ==
    /\ pc[t] = "idle"
    /\ Len(_ITEMS) + InFlight < MaxItems
    /\ \E sub \in Submissions :
          IF sub[1] = NoneVal \/ sub[2] = NoneVal
          THEN /\ pc' = [pc EXCEPT ![t] = "up_done"]
               /\ resp' = [resp EXCEPT ![t] = Redirect]
               /\ UNCHANGED <<image, category, item_id>>
          ELSE /\ pc' = [pc EXCEPT ![t] = "hn"]
               /\ image' = [image EXCEPT ![t] = sub[1]]
               /\ category' = [category EXCEPT ![t] = sub[2]]
               /\ item_id' = [item_id EXCEPT ![t] = new_item_id(_ITEMS)]
               /\ UNCHANGED resp
    /\ UNCHANGED <<_ITEMS, items_map, tops, bottoms, jackets, frame, probe>>

\* handle_new_item, lines 68-94, and upload_item, line 48
HandleNewItemStore(t) ==
    /\ pc[t] = "hn"
    /\ _ITEMS' = Append(_ITEMS, new_item(item_id[t], image[t], category[t]))
    /\ pc' = [pc EXCEPT ![t] = "up_done"]
    /\ resp' = [resp EXCEPT ![t] = Redirect]
    /\ UNCHANGED <<category, image, item_id, items_map, tops, bottoms, jackets, frame, probe>>

\* a handler that records the item first and fills it in afterwards
HandleNewItemRaisePartial(t) ==
    /\ pc[t] = "hn"
    /\ \E stage \in Stages :
          resp' = [resp EXCEPT ![t] = ServerError(stage)]
    /\ _ITEMS' = Append(_ITEMS, [ id |-> item_id[t], image_path |-> image[t],
                                  category |-> NoneVal, color_group |-> NoneVal,
                                  embedding |-> 0 ])
    /\ pc' = [pc EXCEPT ![t] = "up_raised"]
    /\ UNCHANGED <<category, image, item_id, items_map, tops, bottoms, jackets, frame, probe>>

\* handle_new_item, lines 68-82: a stage raises and the exception leaves the handler
HandleNewItemRaise(t) ==
    /\ pc[t] = "hn"
    /\ \E stage \in Stages :
          resp' = [resp EXCEPT ![t] = ServerError(stage)]
    /\ pc' = [pc EXCEPT ![t] = "up_raised"]
    /\ UNCHANGED <<_ITEMS, category, image, item_id, items_map, tops, bottoms, jackets, frame, probe>>

\* capsule, lines 56-65
Capsule(t) ==
    /\ pc[t] = "idle"
    /\ IF below_minimum(get_item_count(_ITEMS))
       THEN /\ pc' = [pc EXCEPT ![t] = "cap_done"]
            /\ resp' = [resp EXCEPT ![t] = Insufficient]
       ELSE /\ pc' = [pc EXCEPT ![t] = "gc_map"]
            /\ UNCHANGED resp
    /\ UNCHANGED <<_ITEMS, category, image, item_id, items_map, tops, bottoms, jackets, frame, probe>>

\* generate_capsule, lines 105-108
GenerateCapsuleMap(t) ==
    /\ pc[t] = "gc_map"
    /\ IF Len(_ITEMS) = 0
       THEN /\ pc' = [pc EXCEPT ![t] = "cap_done"]
            /\ resp' = [resp EXCEPT ![t] = CapsulePage(<<>>, <<>>)]
            /\ UNCHANGED items_map
       ELSE /\ pc' = [pc EXCEPT ![t] = "b_tops"]
            /\ items_map' = [items_map EXCEPT ![t] = build_items_map(_ITEMS)]
            /\ UNCHANGED resp
    /\ UNCHANGED <<_ITEMS, category, image, item_id, tops, bottoms, jackets, frame, probe>>

\* _build_30_outfits, line 180
BuildTops(t) ==
    /\ pc[t] = "b_tops"
    /\ tops' = [tops EXCEPT ![t] = tops_of(_ITEMS)]
    /\ pc' = [pc EXCEPT ![t] = "b_bottoms"]
    /\ UNCHANGED <<_ITEMS, category, image, item_id, items_map, bottoms, jackets, frame, resp, probe>>

\* _build_30_outfits, line 181
BuildBottoms(t) ==
    /\ pc[t] = "b_bottoms"
    /\ bottoms' = [bottoms EXCEPT ![t] = bottoms_of(_ITEMS)]
    /\ pc' = [pc EXCEPT ![t] = "b_jackets"]
    /\ UNCHANGED <<_ITEMS, category, image, item_id, items_map, tops, jackets, frame, resp, probe>>

\* _build_30_outfits, line 182
BuildJackets(t) ==
    /\ pc[t] = "b_jackets"
    /\ jackets' = [jackets EXCEPT ![t] = jackets_of(_ITEMS)]
    /\ pc' = [pc EXCEPT ![t] = "b_combos"]
    /\ UNCHANGED <<_ITEMS, category, image, item_id, items_map, tops, bottoms, frame, resp, probe>>

\* _build_30_outfits, lines 184-227, generate_capsule, lines 111-118, capsule, lines 84-106
BuildCombos(t) ==
    /\ pc[t] = "b_combos"
    /\ LET f == build_from(tops[t], bottoms[t], jackets[t], _ITEMS)
       IN  /\ frame' = [frame EXCEPT ![t] = f]
           /\ resp' = [resp EXCEPT ![t] = CapsulePage(number_days(f.ret), items_map[t])]
    /\ pc' = [pc EXCEPT ![t] = "cap_done"]
    /\ UNCHANGED <<_ITEMS, category, image, item_id, items_map, tops, bottoms, jackets, probe>>

\* the response is sent and the thread is free for the next request
Return(t) ==
    /\ pc[t] \in {"up_done", "up_raised", "cap_done"}
    /\ pc' = [pc EXCEPT ![t] = "idle"]
    /\ category' = [category EXCEPT ![t] = NoneVal]
    /\ image' = [image EXCEPT ![t] = NoneVal]
    /\ item_id' = [item_id EXCEPT ![t] = 0]
    /\ items_map' = [items_map EXCEPT ![t] = <<>>]
    /\ tops' = [tops EXCEPT ![t] = <<>>]
    /\ bottoms' = [bottoms EXCEPT ![t] = <<>>]
    /\ jackets' = [jackets EXCEPT ![t] = <<>>]
    /\ frame' = [frame EXCEPT ![t] = NoFrame]
    /\ resp' = [resp EXCEPT ![t] = NoResp]
    /\ UNCHANGED <<_ITEMS, probe>>

Next ==
    \E t \in Threads :
        \/ UploadItem(t)
        \/ HandleNewItemStore(t)
        \/ HandleNewItemRaise(t)
        \/ Capsule(t)
        \/ GenerateCapsuleMap(t)
        \/ BuildTops(t)
        \/ BuildBottoms(t)
        \/ BuildJackets(t)
        \/ BuildCombos(t)
        \/ Return(t)

Spec == Init /\ [][Next]_vars

----------------------------------------------------------------------------
(* _build_30_outfits on its own: the store is drawn, then the function is called *)

Colors == <<"warm", "cool", "neutral">>

\* colour class of the i-th item: (i * a + b) mod 3 for a seed <<a, b>>
ColorSeeds == { <<0, 2>>, <<1, 0>>, <<2, 1>> }

\* embedding direction of the i-th item: (i * a + b) mod 4 for a seed <<a, b>>
EmbedSeeds == { <<0, 0>>, <<1, 0>>, <<3, 1>> }

\* the categories of a store of nt tops, nb bottoms, nj jackets and no other items, grouped
GroupedCategories(nt, nb, nj, no) ==
    [i \in 1..(nt + nb + nj + no) |->
        IF i <= nt THEN "top"
        ELSE IF i <= nt + nb THEN "bottom"
        ELSE IF i <= nt + nb + nj THEN "jacket"
        ELSE "dress"]

\* the order in which the grouped items were uploaded
Layouts == {"grouped", "reversed", "dealt"}

Arrange(cats, layout) ==
    LET n == Len(cats)
        odd == (n + 1) \div 2
    IN  CASE layout = "grouped" -> cats
          [] layout = "reversed" -> [i \in 1..n |-> cats[n + 1 - i]]
          [] OTHER -> [i \in 1..n |-> IF i <= odd THEN cats[2 * i - 1] ELSE cats[2 * (i - odd)]]

\* a store as sequential uploads leave it: ids 1..n in order
MakeStore(cats, cs, es) ==
    [i \in 1..Len(cats) |->
        [ id |-> i,
          image_path |-> "upload.jpg",
          category |-> cats[i],
          color_group |-> Colors[((i * cs[1] + cs[2]) % 3) + 1],
          embedding |-> (i * es[1] + es[2]) % 4 ]]

BuildInputs ==
    { MakeStore(Arrange(GroupedCategories(nt, nb, nj, no), layout), cs, es) :
        nt \in 0..MaxTops, nb \in 0..MaxBottoms, nj \in 0..MaxJackets, no \in 0..MaxOther,
        layout \in Layouts, cs \in ColorSeeds, es \in EmbedSeeds }

InitBuild ==
    /\ _ITEMS \in BuildInputs
    /\ pc = [t \in Threads |-> "idle"]
    /\ category = [t \in Threads |-> NoneVal]
    /\ image = [t \in Threads |-> NoneVal]
    /\ item_id = [t \in Threads |-> 0]
    /\ items_map = [t \in Threads |-> <<>>]
    /\ tops = [t \in Threads |-> <<>>]
    /\ bottoms = [t \in Threads |-> <<>>]
    /\ jackets = [t \in Threads |-> <<>>]
    /\ frame = [t \in Threads |-> NoFrame]
    /\ resp = [t \in Threads |-> NoResp]
    /\ probe = [hsv |-> <<0, 0, 0>>, rule |-> 0, group |-> NoneVal]

\* a call of _build_30_outfits(_ITEMS), lines 168-227
BuildOutfits(t) ==
    /\ pc[t] = "idle"
    /\ frame' = [frame EXCEPT ![t] = _build_30_outfits(_ITEMS)]
    /\ pc' = [pc EXCEPT ![t] = "built"]
    /\ UNCHANGED <<_ITEMS, category, image, item_id, items_map, tops, bottoms, jackets, resp, probe>>

NextBuild == \E t \in Threads : BuildOutfits(t)

SpecBuild == InitBuild /\ [][NextBuild]_vars

----------------------------------------------------------------------------
(* categorize_color on its own: the colour is drawn, then the function is called *)

\* the values tried: every hue, every saturation, the values around the threshold 20
ValueSamples == {0, 19, 20, 21, 128, 255}

HSVInputs == (0..HueMax) \X (0..ChannelMax) \X ValueSamples

InitColor ==
    /\ _ITEMS = <<>>
    /\ pc = [t \in Threads |-> "idle"]
    /\ category = [t \in Threads |-> NoneVal]
    /\ image = [t \in Threads |-> NoneVal]
    /\ item_id = [t \in Threads |-> 0]
    /\ items_map = [t \in Threads |-> <<>>]
    /\ tops = [t \in Threads |-> <<>>]
    /\ bottoms = [t \in Threads |-> <<>>]
    /\ jackets = [t \in Threads |-> <<>>]
    /\ frame = [t \in Threads |-> NoFrame]
    /\ resp = [t \in Threads |-> NoResp]
    /\ \E hsv \in HSVInputs : probe = [hsv |-> hsv, rule |-> 0, group |-> NoneVal]

\* a call of categorize_color(hsv), lines 105-133
CategorizeColor ==
    /\ probe.rule = 0
    /\ probe' = [probe EXCEPT !.rule = categorize_rule(probe.hsv),
                              !.group = categorize_color(probe.hsv)]
    /\ UNCHANGED <<_ITEMS, pc, category, image, item_id, items_map, tops, bottoms, jackets, frame, resp>>

NextColor == CategorizeColor

SpecColor == InitColor /\ [][NextColor]_vars

----------------------------------------------------------------------------
(* Properties *)

\* the length the documentation of app.py and wardrobe_model.py gives the capsule
DocumentedDays == 30

\* a capsule page was generated (not the insufficient-wardrobe page)
Generated(t) == pc[t] = "cap_done" /\ resp[t].kind = "capsule" /\ resp[t].message = NoneVal

\* C1: whenever the store holds at least the minimum number of items and at least one
\* combo exists, a capsule request returns exactly the documented 30 days, numbered
\* 1..30 without gaps.
C1_CapsuleHasThirtyDays ==
    \A t \in Threads :
        (Generated(t) /\ Len(frame[t].combos) >= 1) =>
            /\ Len(resp[t].days) = DocumentedDays
            /\ \A d \in 1..Len(resp[t].days) :
                  resp[t].days[d].day_number = d /\ resp[t].days[d].outfit.day = d

\* C2: a capsule request that finds fewer than the minimum number of items answers
\* with the insufficient-wardrobe page (no days, no items, a message), never an
\* error and never a partial capsule, and leaves the store as it was.
C2_BelowMinimumIsInsufficient ==
    [][\A t \in Threads :
          (pc[t] = "idle" /\ pc'[t] \in {"gc_map", "cap_done"} /\ Len(_ITEMS) < 2) =>
              /\ pc'[t] = "cap_done"
              /\ resp'[t].kind = "capsule"
              /\ resp'[t].days = <<>>
              /\ resp'[t].items = <<>>
              /\ resp'[t].message # NoneVal
              /\ _ITEMS' = _ITEMS]_vars

C2_Witness ==
    \E t \in Threads :
        /\ pc[t] = "cap_done"
        /\ resp[t].kind = "capsule"
        /\ resp[t].days = <<>>
        /\ resp[t].message # NoneVal
        /\ Len(_ITEMS) = 1

\* C3: under every interleaving of concurrent handle_new_item calls, no two items of
\* the store carry the same id.
C3_IdsUnique ==
    \A i, j \in 1..Len(_ITEMS) : i # j => _ITEMS[i].id # _ITEMS[j].id

\* the ids, in store order, of the items of one category
IdsOf(c) == { _ITEMS[i].id : i \in { k \in 1..Len(_ITEMS) : _ITEMS[k].category = c } }
CountOf(c) == Cardinality({ k \in 1..Len(_ITEMS) : _ITEMS[k].category = c })
CategoryOfId(id) == _ITEMS[CHOOSE k \in 1..Len(_ITEMS) : _ITEMS[k].id = id].category
ComboIds(t) == { frame[t].combos[k].ids : k \in 1..Len(frame[t].combos) }

\* C4: with T > 0 tops, B > 0 bottoms and J jackets the combinator generates exactly
\* T*B*(1+J) combos: each (top, bottom) pair once without a jacket and once with each
\* jacket; no combo holds an item of another category.
C4_StructuredCardinality ==
    \A t \in Threads :
        (pc[t] = "built" /\ CountOf("top") > 0 /\ CountOf("bottom") > 0) =>
            /\ Len(frame[t].combos) = CountOf("top") * CountOf("bottom") * (1 + CountOf("jacket"))
            /\ Cardinality(ComboIds(t)) = Len(frame[t].combos)
            /\ \A a \in IdsOf("top"), b \in IdsOf("bottom") :
                  /\ <<a, b>> \in ComboIds(t)
                  /\ \A j \in IdsOf("jacket") : <<a, b, j>> \in ComboIds(t)
            /\ \A ids \in ComboIds(t) : \A k \in 1..Len(ids) :
                  CategoryOfId(ids[k]) \in {"top", "bottom", "jacket"}

C4_Witness ==
    \E t \in Threads :
        /\ pc[t] = "built"
        /\ CountOf("top") = 2 /\ CountOf("bottom") = 3 /\ CountOf("jacket") = 2
        /\ CountOf("dress") = 1
        /\ Len(frame[t].combos) = 18

\* C5: with zero tops or zero bottoms and N items the combinator generates exactly
\* N*(N-1)/2 combos, one per unordered pair of distinct items whatever the category;
\* with N < 2 it yields N single-item outfits instead.
C5_FallbackCardinality ==
    \A t \in Threads :
        (pc[t] = "built" /\ (CountOf("top") = 0 \/ CountOf("bottom") = 0)) =>
            LET n == Len(_ITEMS)
            IN  IF n >= 2
                THEN /\ 2 * Len(frame[t].combos) = n * (n - 1)
                     /\ Cardinality(ComboIds(t)) = Len(frame[t].combos)
                     /\ \A i, j \in 1..n :
                           i < j => <<_ITEMS[i].id, _ITEMS[j].id>> \in ComboIds(t)
                ELSE /\ Len(frame[t].combos) = 0
                     /\ Len(frame[t].ret) = n
                     /\ \A i \in 1..n : frame[t].ret[i] = <<_ITEMS[i].id>>

C5_Witness ==
    \E t \in Threads :
        /\ pc[t] = "built"
        /\ CountOf("top") = 0 /\ CountOf("bottom") = 2 /\ CountOf("jacket") = 2
        /\ CountOf("dress") = 1
        /\ Len(frame[t].combos) = 10

\* C6: a capsule request running beside handle_new_item calls is computed from one
\* snapshot of the store: the item table and the outfits come from the same store
\* prefix, and every item id listed in a returned day is a key of the returned table.
C6_CapsuleFromOneSnapshot ==
    \A t \in Threads :
        Generated(t) =>
            /\ \A d \in 1..Len(resp[t].days) :
                  \A k \in 1..Len(resp[t].days[d].outfit.items) :
                      resp[t].days[d].outfit.items[k] \in DOMAIN resp[t].items
            /\ \E n \in 0..Len(_ITEMS) :
                  LET prefix == SubSeq(_ITEMS, 1, n)
                  IN  /\ resp[t].items = build_items_map(prefix)
                      /\ resp[t].days =
                            calendar_days(number_days(_build_30_outfits(prefix).ret))

\* C7: a handle_new_item call that fails at any stage leaves the store exactly as it
\* was: nothing is appended, the item count and the existing items are untouched, the
\* failure uses up no id, and an upload that follows the failed call gets the id the
\* failed call had taken (the id it read being still the next free one).
C7_FailureLeavesStore ==
    [][\A t \in Threads :
          (pc[t] = "hn" /\ pc'[t] = "up_raised") =>
              /\ _ITEMS' = _ITEMS
              /\ Len(_ITEMS') = Len(_ITEMS)
              /\ new_item_id(_ITEMS') = new_item_id(_ITEMS)
              /\ (new_item_id(_ITEMS) = item_id[t] => new_item_id(_ITEMS') = item_id[t])]_vars

C7_Witness ==
    \E t, u \in Threads :
        /\ t # u
        /\ pc[t] = "up_raised"
        /\ pc[u] = "up_done"
        /\ item_id[u] = item_id[t]
        /\ Len(_ITEMS) = 2
        /\ _ITEMS[2].id = item_id[u]
        /\ _ITEMS[1].id = 1

\* position of a ranked entry in the generation order of the combos
OriginOf(t, i) ==
    CHOOSE k \in 1..Len(frame[t].combos) : frame[t].combos[k].ids = frame[t].scored[i].ids

C9_PaddingIsCyclic ==
    \A t \in Threads :
        (pc[t] = "built" /\ Len(frame[t].combos) >= 1 /\ Len(frame[t].combos) < CapsuleSlice) =>
            LET m == Len(frame[t].combos)
            IN  /\ Len(frame[t].ret) > m
                /\ \A d \in 1..Len(frame[t].ret) :
                      frame[t].ret[d] = frame[t].scored[((d - 1) % m) + 1].ids

C9_Witness ==
    \E t \in Threads :
        /\ pc[t] = "built"
        /\ Len(frame[t].combos) = 12
        /\ Len(frame[t].ret) = 31
        /\ frame[t].ret[25] = frame[t].scored[1].ids
        /\ frame[t].ret[31] = frame[t].scored[7].ids
        /\ frame[t].scored[1].ids # frame[t].scored[7].ids

\* C10: on the scale (hue 0..179, saturation and value 0..255) categorize_color
\* always returns through one of its first five rules; the final default is never
\* reached.
C10_DefaultNeverReached ==
    probe.rule # 0 => probe.rule \in 1..5

\* C10 as amended: the final default is reached exactly for hue 0..15 with
\* saturation 15..40 and value >= 20 (a weakly saturated red), where the colour is
\* neutral; every other colour of the scale leaves through one of the first five rules.
C10_DefaultOnlyForPaleReds ==
    probe.rule # 0 =>
        /\ probe.rule \in 1..6
        /\ probe.rule = 6 <=>
              /\ probe.hsv[1] \in 0..15
              /\ probe.hsv[2] \in 15..40
              /\ probe.hsv[3] >= 20
        /\ probe.rule = 6 => probe.group = "neutral"

C10_Witness ==
    probe.rule = 6 /\ probe.hsv = <<10, 30, 128>> /\ probe.group = "neutral"

====
